---- MODULE Spec2Model ----
(***************************************************************************)
(* Model of phira/src/client.rs: the response pipeline (recv_raw), the     *)
(* swappable client configuration (CLIENT, build_client), the per-type     *)
(* object cache (load / fetch / cache_objects), login, and the paginated   *)
(* query builder.                                                          *)
(*                                                                         *)
(* Text is a sequence of lexemes.  A lexeme is a TLA+ string standing for  *)
(* a run of characters that the JSON lexer treats as a unit: punctuation,  *)
(* a quote, the content of a string literal, a single decimal digit, or a  *)
(* bare word.                                                              *)
(***************************************************************************)
EXTENDS Integers, Sequences, FiniteSets, TLC

VARIABLES
  response,   \* response pipeline: the answer recv_raw is called on
  outcome,    \* response pipeline: what recv_raw returned
  cache,      \* ObjectMap<T> of one resource type: id -> Arc<T>
  lock,       \* the task holding the mutex of that map, 0 when free
  pc,         \* where each task is inside its current call
  cur,        \* the call each task is executing
  hist,       \* the calls each task has completed, oldest first
  inserts,    \* per id, the handles offered to get_or_insert, in order
  puts,       \* per id, the number of put calls made by cache_objects
  CLIENT,     \* the active client configuration (ArcSwap<reqwest::Client>)
  language,   \* get_data().language, an option
  tokens,     \* get_data().tokens, an option
  saved,      \* the tokens in the data save_data has written
  swaps,      \* the access tokens given to the CLIENT.store calls, in order
  writes,     \* the number of assignments to get_data_mut().tokens
  queries,    \* QueryBuilder::queries, a map from key to value
  page,       \* QueryBuilder::page, an option
  qlog,       \* the builder calls made so far, in order
  wire,       \* the query strings of the requests send has issued
  qres        \* what send returned, an option

recvVars == <<response, outcome>>

cacheVars == <<cache, lock, inserts, puts>>

taskVars == <<pc, cur, hist>>

transportVars == <<CLIENT, language, tokens, saved, swaps, writes>>

queryVars == <<queries, page, qlog, wire, qres>>

vars == <<response, outcome, cache, lock, pc, cur, hist, inserts, puts,
          CLIENT, language, tokens, saved, swaps, writes,
          queries, page, qlog, wire, qres>>

(***************************************************************************)
(* Bounds                                                                  *)
(***************************************************************************)
MaxMembers == 2
MaxCalls == 2
MaxList == 2
MaxSetters == 2
\* the width of u64 in the model
U64Bits == 3

(***************************************************************************)
(* JSON documents, their text, and serde_json::from_str                    *)
(***************************************************************************)
Digits == <<"0", "1", "2", "3", "4", "5", "6", "7", "8", "9">>

DigitLexemes == {Digits[i] : i \in 1..10}

DigitValue(d) == (CHOOSE i \in 1..10 : Digits[i] = d) - 1

Quote == "\""

\* serde_json::Value, objects as maps from key to value
JNull == [k |-> "null"]
JBool(b) == [k |-> "bool", b |-> b]
JNum(n) == [k |-> "num", n |-> n]
JStr(s) == [k |-> "str", s |-> s]
JArr(a) == [k |-> "arr", a |-> a]
JObj(f) == [k |-> "obj", f |-> f]

ParseFail == [ok |-> FALSE]

\* result of parsing one value that ends before position next
Parsed(v, next) == [ok |-> TRUE, v |-> v, next |-> next]

RECURSIVE ParseNumber(_, _, _)
ParseNumber(text, i, acc) ==
  IF i <= Len(text) /\ text[i] \in DigitLexemes
  THEN ParseNumber(text, i + 1, acc * 10 + DigitValue(text[i]))
  ELSE Parsed(JNum(acc), i)

\* a string literal: quote, optional content lexeme, quote
ParseString(text, i) ==
  IF i + 1 <= Len(text) /\ text[i] = Quote /\ text[i + 1] = Quote
  THEN Parsed(JStr(""), i + 2)
  ELSE IF i + 2 <= Len(text) /\ text[i] = Quote /\ text[i + 1] # Quote /\ text[i + 2] = Quote
  THEN Parsed(JStr(text[i + 1]), i + 3)
  ELSE ParseFail

RECURSIVE ParseValue(_, _)
RECURSIVE ParseMembers(_, _, _)
RECURSIVE ParseElements(_, _, _)

ParseValue(text, i) ==
  IF i > Len(text) THEN ParseFail
  ELSE IF text[i] = "null" THEN Parsed(JNull, i + 1)
  ELSE IF text[i] = "true" THEN Parsed(JBool(TRUE), i + 1)
  ELSE IF text[i] = "false" THEN Parsed(JBool(FALSE), i + 1)
  ELSE IF text[i] = "0" /\ i + 1 <= Len(text) /\ text[i + 1] \in DigitLexemes THEN ParseFail
  ELSE IF text[i] \in DigitLexemes THEN ParseNumber(text, i, 0)
  ELSE IF text[i] = Quote THEN ParseString(text, i)
  ELSE IF text[i] = "{" THEN
    IF i + 1 <= Len(text) /\ text[i + 1] = "}"
    THEN Parsed(JObj(<<>>), i + 2)
    ELSE ParseMembers(text, i + 1, <<>>)
  ELSE IF text[i] = "[" THEN
    IF i + 1 <= Len(text) /\ text[i + 1] = "]"
    THEN Parsed(JArr(<<>>), i + 2)
    ELSE ParseElements(text, i + 1, <<>>)
  ELSE ParseFail

\* members of an object from position i on; a repeated key keeps the last value
ParseMembers(text, i, f) ==
  LET key == ParseString(text, i) IN
  IF ~key.ok THEN ParseFail
  ELSE IF key.next > Len(text) \/ text[key.next] # ":" THEN ParseFail
  ELSE LET val == ParseValue(text, key.next + 1) IN
    IF ~val.ok THEN ParseFail
    ELSE LET g == [x \in DOMAIN f \cup {key.v.s} |-> IF x = key.v.s THEN val.v ELSE f[x]] IN
      IF val.next > Len(text) THEN ParseFail
      ELSE IF text[val.next] = "}" THEN Parsed(JObj(g), val.next + 1)
      ELSE IF text[val.next] = "," THEN ParseMembers(text, val.next + 1, g)
      ELSE ParseFail

ParseElements(text, i, a) ==
  LET val == ParseValue(text, i) IN
  IF ~val.ok THEN ParseFail
  ELSE IF val.next > Len(text) THEN ParseFail
  ELSE IF text[val.next] = "]" THEN Parsed(JArr(Append(a, val.v)), val.next + 1)
  ELSE IF text[val.next] = "," THEN ParseElements(text, val.next + 1, Append(a, val.v))
  ELSE ParseFail

\* serde_json::from_str::<Value>: one value and nothing after it
from_str(text) ==
  LET r == ParseValue(text, 1) IN
  IF r.ok /\ r.next = Len(text) + 1 THEN [ok |-> TRUE, v |-> r.v] ELSE ParseFail

\* Value's Index<&str>: Null unless the value is an object that has the key
Index(v, key) ==
  IF v.k = "obj" /\ key \in DOMAIN v.f THEN v.f[key] ELSE JNull

\* Value::as_str as an option: the set holding the string, or the empty set
as_str(v) == IF v.k = "str" THEN {v.s} ELSE {}

(***************************************************************************)
(* Response bodies a server can send: JSON documents as written (members   *)
(* in order, keys possibly repeated) and text that is not JSON             *)
(***************************************************************************)
DNull == [k |-> "null"]
DNum(n) == [k |-> "num", n |-> n]
DStr(s) == [k |-> "str", s |-> s]
DArr(a) == [k |-> "arr", a |-> a]
DObj(m) == [k |-> "obj", m |-> m]
DRaw(text) == [k |-> "raw", text |-> text]

\* u64::to_string / the decimal text of a number
RECURSIVE to_string(_)
to_string(n) ==
  IF n < 10 THEN <<Digits[n + 1]>>
  ELSE to_string(n \div 10) \o <<Digits[(n % 10) + 1]>>

RenderString(s) == IF s = "" THEN <<Quote, Quote>> ELSE <<Quote, s, Quote>>

RECURSIVE Render(_)
RECURSIVE RenderMembers(_, _)
RECURSIVE RenderElements(_, _)

\* the text of a document
Render(doc) ==
  CASE doc.k = "null" -> <<"null">>
    [] doc.k = "num" -> to_string(doc.n)
    [] doc.k = "str" -> RenderString(doc.s)
    [] doc.k = "arr" -> <<"[">> \o RenderElements(doc.a, 1) \o <<"]">>
    [] doc.k = "obj" -> <<"{">> \o RenderMembers(doc.m, 1) \o <<"}">>
    [] doc.k = "raw" -> doc.text

RenderMembers(m, i) ==
  IF i > Len(m) THEN <<>>
  ELSE RenderString(m[i][1]) \o <<":">> \o Render(m[i][2])
       \o (IF i < Len(m) THEN <<",">> ELSE <<>>) \o RenderMembers(m, i + 1)

RenderElements(a, i) ==
  IF i > Len(a) THEN <<>>
  ELSE Render(a[i]) \o (IF i < Len(a) THEN <<",">> ELSE <<>>) \o RenderElements(a, i + 1)

Keys == {"detail", "code"}

Scalars == {DNull, DNum(0), DNum(42), DStr("invalid token"), DStr("")}

Inner == Scalars \cup {DArr(<<DStr("invalid token")>>), DObj(<<>>), DObj(<<<<"detail", DStr("x")>>>>)}

MemberSeqs == UNION {[1..n -> Keys \X Inner] : n \in 0..MaxMembers}

JsonDocs == Scalars \cup {DArr(<<>>), DArr(<<DStr("invalid token")>>)} \cup {DObj(m) : m \in MemberSeqs}

\* text that is not one JSON value: prose, nothing, a truncated object, trailing input
NotJson == {DRaw(<<"plain text error">>), DRaw(<<>>),
            DRaw(<<"{", Quote, "detail", Quote, ":">>),
            DRaw(<<"{", Quote, "detail", Quote, ":", Quote, "x", Quote>>),
            DRaw(<<"{", "}", "}">>), DRaw(<<Quote, "detail">>)}

Docs == JsonDocs \cup NotJson

Statuses == {200, 204, 299, 300, 404, 500}

\* what the server (or the network) answers to one request
NetError == [kind |-> "neterr"]

HttpResponse(status, doc, textok) ==
  [kind |-> "http", status |-> status, doc |-> doc, body |-> Render(doc), textok |-> textok]

Responses == {NetError} \cup {HttpResponse(s, d, t) : s \in Statuses, d \in Docs, t \in BOOLEAN}

(***************************************************************************)
(* recv_raw                                                                *)
(***************************************************************************)
Ok(v) == [ok |-> TRUE, v |-> v]
Err(msg) == [ok |-> FALSE, msg |-> msg]

\* StatusCode::is_success
is_success(status) == status >= 200 /\ status < 300

\* recv_raw without the lookup of detail
recv_raw_text_only(resp) ==
  IF resp.kind = "neterr" THEN Err(<<"error sending request">>)
  ELSE IF ~is_success(resp.status) THEN
    IF ~resp.textok THEN Err(<<"failed to receive text">>)
    ELSE Err(<<"request failed: ">> \o resp.body)
  ELSE Ok(resp)

recv_raw(resp) ==
  IF resp.kind = "neterr" THEN Err(<<"error sending request">>)
  ELSE IF ~is_success(resp.status) THEN
    IF ~resp.textok THEN Err(<<"failed to receive text">>)
    ELSE LET text == resp.body
             what == from_str(text)
             detail == IF what.ok THEN as_str(Index(what.v, "detail")) ELSE {} IN
      IF detail # {}
      THEN Err(<<"request failed: ">> \o <<CHOOSE d \in detail : TRUE>>)
      ELSE Err(<<"request failed: ">> \o text)
  ELSE Ok(resp)

NotCalled == [done |-> FALSE]

RecvInit == response \in Responses /\ outcome = NotCalled

RecvIdle == response = NetError /\ outcome = NotCalled

RecvRawCall ==
  /\ ~outcome.done
  /\ outcome' = [done |-> TRUE, res |-> recv_raw(response)]
  /\ UNCHANGED response

(***************************************************************************)
(* Resources and what the server answers to GET /{QUERY_PATH}/{id}         *)
(***************************************************************************)
\* every call may be made by its own task
Tasks == 1..MaxCalls

Ids == {1, 2}

Data == {"a", "b"}

\* a value of the resource type T; Object::id is the field id
Objects == [id : Ids, data : Data]

ObjectDoc(obj) == DObj(<<<<"id", DNum(obj.id)>>, <<"data", DStr(obj.data)>>>>)

FetchAnswers(id) ==
  {NetError,
   HttpResponse(404, DObj(<<<<"detail", DStr("not found")>>>>), TRUE),
   HttpResponse(200, DNull, TRUE),
   HttpResponse(200, DRaw(<<"plain text error">>), TRUE)}
  \cup {HttpResponse(200, ObjectDoc([id |-> id, data |-> d]), TRUE) : d \in Data}

\* Response::json::<Option<T>>: null is None, an object with the fields of T
\* is Some, anything else a decoding error
json_option(resp) ==
  LET what == from_str(resp.body) IN
  IF ~resp.textok \/ ~what.ok THEN Err(<<"error decoding response body">>)
  ELSE IF what.v.k = "null" THEN Ok({})
  ELSE IF /\ what.v.k = "obj"
          /\ {"id", "data"} \subseteq DOMAIN what.v.f
          /\ what.v.f["id"].k = "num"
          /\ what.v.f["data"].k = "str"
  THEN Ok({[id |-> what.v.f["id"].n, data |-> what.v.f["data"].s]})
  ELSE Err(<<"error decoding response body">>)

fetch_inner(resp) ==
  LET r == recv_raw(resp) IN
  IF ~r.ok THEN r ELSE json_option(r.v)

\* fetch_inner on every answer to a GET of id
FetchResults == [id \in Ids |-> [resp \in FetchAnswers(id) |-> fetch_inner(resp)]]

(***************************************************************************)
(* ObjectMap<T>                                                            *)
(***************************************************************************)
\* Arc::new: a handle is an allocation (named by who made it) and its value
Arc(t, k, i, obj) == [arc |-> <<t, k, i>>, val |-> obj]

contains(map, id) == id \in DOMAIN map

put(map, id, h) == [x \in DOMAIN map \cup {id} |-> IF x = id THEN h ELSE map[x]]

\* get_or_insert if it replaced an entry that is present
get_or_insert_replace(map, id, h) == put(map, id, h)

\* get_or_insert on a map that holds one entry only: a new entry evicts the other
get_or_insert_evicting(map, id, h) == IF contains(map, id) THEN map ELSE [x \in {id} |-> h]

get_or_insert(map, id, h) == IF contains(map, id) THEN map ELSE put(map, id, h)

RECURSIVE put_all_keep_first(_, _, _)
\* the loop of cache_objects if it kept an entry that is already there
put_all_keep_first(map, hs, i) ==
  IF i > Len(hs) THEN map
  ELSE put_all_keep_first(get_or_insert(map, hs[i].val.id, hs[i]), hs, i + 1)

RECURSIVE put_all(_, _, _)
\* the loop of cache_objects over handles hs from index i on
put_all(map, hs, i) ==
  IF i > Len(hs) THEN map ELSE put_all(put(map, hs[i].val.id, hs[i]), hs, i + 1)

(***************************************************************************)
(* Tasks calling load, fetch and cache_objects                             *)
(***************************************************************************)
Idle == [op |-> "none"]

\* the lists cache_objects is called with: any ids, in any order and with
\* repetitions; neighbours in a list differ in their data
DataAt(i) == IF i % 2 = 1 THEN "a" ELSE "b"

ObjectLists ==
  UNION {{[i \in 1..n |-> [id |-> ids[i], data |-> DataAt(i)]] : ids \in [1..n -> Ids]} :
         n \in 1..MaxList}

\* calls started so far
RECURSIVE CallsOf(_)
CallsOf(t) ==
  IF t = 0 THEN 0
  ELSE Len(hist[t]) + (IF pc[t] = "idle" THEN 0 ELSE 1) + CallsOf(t - 1)

Calls == CallsOf(MaxCalls)

\* task t may start a call; tasks are interchangeable and are numbered in the
\* order of their first calls
MayCall(t) ==
  /\ pc[t] = "idle"
  /\ Calls < MaxCalls
  /\ \A u \in Tasks : u < t => (hist[u] # <<>> \/ pc[u] # "idle")

\* the call task t is starting is its k-th
CallNo(t) == Len(hist[t]) + 1

IdsOf(objs) == {objs[i].id : i \in 1..Len(objs)}

\* a call that task t starts now; ins0 and put0 count the insertions and puts
\* made for its id before it
Called(t, op, id, objs) ==
  [op |-> op, id |-> id, objs |-> objs, net |-> 0,
   miss |-> FALSE, got |-> {}, before |-> {}, res |-> {},
   ins0 |-> IF id \in Ids THEN Len(inserts[id]) ELSE 0,
   put0 |-> IF id \in Ids THEN puts[id] ELSE 0,
   after |-> <<>>, puts1 |-> <<>>, answer |-> {}]

\* the call c of task t returns res
Return(t, c, res) ==
  /\ hist' = [hist EXCEPT ![t] = Append(@, [c EXCEPT !.res = res])]
  /\ cur' = [cur EXCEPT ![t] = Idle]
  /\ pc' = [pc EXCEPT ![t] = "idle"]

\* load that never looks the id up
Load_no_lookup(t, id) ==
  /\ MayCall(t)
  /\ lock = 0
  /\ lock' = 0
  /\ cur' = [cur EXCEPT ![t] = [Called(t, "load", id, <<>>) EXCEPT !.miss = TRUE]]
  /\ pc' = [pc EXCEPT ![t] = "fetch"]
  /\ UNCHANGED <<hist, cache, inserts, puts>>

\* load, lines 92-101: lock the map, look id up, return the entry, or unlock
\* and go on to fetch
Load(t, id) ==
  /\ MayCall(t)
  /\ lock = 0
  /\ lock' = 0
  /\ IF contains(cache, id)
     THEN Return(t, Called(t, "load", id, <<>>), Ok(cache[id]))
     ELSE /\ cur' = [cur EXCEPT ![t] = [Called(t, "load", id, <<>>) EXCEPT !.miss = TRUE]]
          /\ pc' = [pc EXCEPT ![t] = "fetch"]
          /\ UNCHANGED hist
  /\ UNCHANGED <<cache, inserts, puts>>

\* fetch called by load: fetch_inner sends GET /{QUERY_PATH}/{id}
LoadFetch(t) ==
  /\ pc[t] = "fetch"
  /\ cur' = [cur EXCEPT ![t].net = @ + 1]
  /\ pc' = [pc EXCEPT ![t] = "fetch_await"]
  /\ UNCHANGED <<hist, cacheVars>>

\* fetch called directly: fetch_inner sends GET /{QUERY_PATH}/{id}
Fetch(t, id) ==
  /\ MayCall(t)
  /\ cur' = [cur EXCEPT ![t] = [Called(t, "fetch", id, <<>>) EXCEPT !.net = 1]]
  /\ pc' = [pc EXCEPT ![t] = "fetch_await"]
  /\ UNCHANGED <<hist, cacheVars>>

\* fetch that takes a default object when the server answers null
FetchRecv_default_on_none(t) ==
  /\ pc[t] = "fetch_await"
  /\ \E resp \in DOMAIN FetchResults[cur[t].id] :
       LET r == FetchResults[cur[t].id][resp]
           c == [cur[t] EXCEPT !.answer = {resp}]
           obj == IF r.v = {} THEN [id |-> cur[t].id, data |-> "a"] ELSE CHOOSE o \in r.v : TRUE IN
       IF ~r.ok THEN Return(t, c, r)
       ELSE /\ cur' = [cur EXCEPT ![t] = [c EXCEPT !.got = {Arc(t, CallNo(t), 0, obj)}]]
            /\ pc' = [pc EXCEPT ![t] = "fetch_insert"]
            /\ UNCHANGED hist
  /\ UNCHANGED cacheVars

\* fetch that drops the entry of id when it fails
FetchRecv_evict_on_error(t) ==
  /\ pc[t] = "fetch_await"
  /\ \E resp \in DOMAIN FetchResults[cur[t].id] :
       LET r == FetchResults[cur[t].id][resp]
           c == [cur[t] EXCEPT !.answer = {resp}] IN
       IF ~r.ok \/ r.v = {}
       THEN /\ Return(t, c, IF r.ok THEN Err(<<"entry not found">>) ELSE r)
            /\ cache' = [x \in DOMAIN cache \ {cur[t].id} |-> cache[x]]
       ELSE /\ cur' = [cur EXCEPT ![t] =
                         [c EXCEPT !.got = {Arc(t, CallNo(t), 0, CHOOSE obj \in r.v : TRUE)}]]
            /\ pc' = [pc EXCEPT ![t] = "fetch_insert"]
            /\ UNCHANGED <<hist, cache>>
  /\ UNCHANGED <<lock, inserts, puts>>

\* the answer arrives and fetch, line 106, unwraps it
FetchRecv(t) ==
  /\ pc[t] = "fetch_await"
  /\ \E resp \in DOMAIN FetchResults[cur[t].id] :
       LET r == FetchResults[cur[t].id][resp]
           c == [cur[t] EXCEPT !.answer = {resp}] IN
       IF ~r.ok THEN Return(t, c, r)
       ELSE IF r.v = {} THEN Return(t, c, Err(<<"entry not found">>))
       ELSE /\ cur' = [cur EXCEPT ![t] =
                         [c EXCEPT !.got = {Arc(t, CallNo(t), 0, CHOOSE obj \in r.v : TRUE)}]]
            /\ pc' = [pc EXCEPT ![t] = "fetch_insert"]
            /\ UNCHANGED hist
  /\ UNCHANGED cacheVars

\* fetch that calls put where line 112 calls get_or_insert
FetchInsert_put(t) ==
  LET id == cur[t].id
      value == CHOOSE h \in cur[t].got : TRUE
      before == IF contains(cache, id) THEN {cache[id]} ELSE {} IN
  /\ pc[t] = "fetch_insert"
  /\ lock = 0
  /\ lock' = 0
  /\ cache' = put(cache, id, value)
  /\ inserts' = [inserts EXCEPT ![id] = Append(@, value)]
  /\ Return(t, [cur[t] EXCEPT !.before = before], Ok(cache'[id]))
  /\ UNCHANGED puts

\* fetch that returns its value without storing it
FetchInsert_no_store(t) ==
  LET id == cur[t].id
      value == CHOOSE h \in cur[t].got : TRUE
      before == IF contains(cache, id) THEN {cache[id]} ELSE {} IN
  /\ pc[t] = "fetch_insert"
  /\ lock = 0
  /\ lock' = 0
  /\ cache' = cache
  /\ inserts' = [inserts EXCEPT ![id] = Append(@, value)]
  /\ Return(t, [cur[t] EXCEPT !.before = before], Ok(value))
  /\ UNCHANGED puts

\* fetch, lines 107-112: lock the map, get_or_insert, return the entry
FetchInsert(t) ==
  LET id == cur[t].id
      value == CHOOSE h \in cur[t].got : TRUE
      before == IF contains(cache, id) THEN {cache[id]} ELSE {} IN
  /\ pc[t] = "fetch_insert"
  /\ lock = 0
  /\ lock' = 0
  /\ cache' = get_or_insert(cache, id, value)
  /\ inserts' = [inserts EXCEPT ![id] = Append(@, value)]
  /\ Return(t, [cur[t] EXCEPT !.before = before], Ok(cache'[id]))
  /\ UNCHANGED puts

\* cache_objects, lines 116-124: lock the map, put every object, unlock
CacheObjects(t, objs) ==
  LET hs == [i \in 1..Len(objs) |-> Arc(t, CallNo(t), i, objs[i])] IN
  /\ MayCall(t)
  /\ lock = 0
  /\ lock' = 0
  /\ cache' = put_all(cache, hs, 1)
  /\ puts' = [i \in Ids |-> puts[i] + Cardinality({j \in 1..Len(objs) : objs[j].id = i})]
  /\ Return(t, [Called(t, "cache_objects", 0, objs) EXCEPT
                  !.after = [i \in IdsOf(objs) |-> cache'[i]],
                  !.puts1 = [i \in IdsOf(objs) |-> puts'[i]]], Ok(<<>>))
  /\ UNCHANGED inserts

(***************************************************************************)
(* The cache mutex step by step: taking the lock and the critical section  *)
(* are separate steps, and lock is the task that holds the guard           *)
(***************************************************************************)
\* the lists of one object
SingleObjects == {objs \in ObjectLists : Len(objs) = 1}

\* load, lines 93-94: map.lock()
LoadLock(t, id) ==
  /\ MayCall(t)
  /\ lock = 0
  /\ lock' = t
  /\ cur' = [cur EXCEPT ![t] = Called(t, "load", id, <<>>)]
  /\ pc' = [pc EXCEPT ![t] = "load_locked"]
  /\ UNCHANGED <<hist, cache, inserts, puts>>

\* load that goes on to fetch with the guard still alive
LoadLookup_keep_guard(t) ==
  /\ pc[t] = "load_locked"
  /\ IF contains(cache, cur[t].id)
     THEN Return(t, cur[t], Ok(cache[cur[t].id])) /\ lock' = 0
     ELSE /\ cur' = [cur EXCEPT ![t].miss = TRUE]
          /\ pc' = [pc EXCEPT ![t] = "fetch"]
          /\ lock' = lock
          /\ UNCHANGED hist
  /\ UNCHANGED <<cache, inserts, puts>>

\* load, lines 96-101: the lookup; the guard is dropped at the return of a hit
\* and by drop(guard) on a miss
LoadLookup(t) ==
  /\ pc[t] = "load_locked"
  /\ lock' = 0
  /\ IF contains(cache, cur[t].id)
     THEN Return(t, cur[t], Ok(cache[cur[t].id]))
     ELSE /\ cur' = [cur EXCEPT ![t].miss = TRUE]
          /\ pc' = [pc EXCEPT ![t] = "fetch"]
          /\ UNCHANGED hist
  /\ UNCHANGED <<cache, inserts, puts>>

\* fetch, lines 107-108: map.lock() after the answer has arrived
FetchLock(t) ==
  /\ pc[t] = "fetch_insert"
  /\ lock = 0
  /\ lock' = t
  /\ pc' = [pc EXCEPT ![t] = "fetch_locked"]
  /\ UNCHANGED <<cur, hist, cache, inserts, puts>>

\* fetch, line 112: get_or_insert; the guard is dropped at the return
FetchStore(t) ==
  LET id == cur[t].id
      value == CHOOSE h \in cur[t].got : TRUE
      before == IF contains(cache, id) THEN {cache[id]} ELSE {} IN
  /\ pc[t] = "fetch_locked"
  /\ lock' = 0
  /\ cache' = get_or_insert(cache, id, value)
  /\ inserts' = [inserts EXCEPT ![id] = Append(@, value)]
  /\ Return(t, [cur[t] EXCEPT !.before = before], Ok(cache'[id]))
  /\ UNCHANGED puts

\* cache_objects, lines 116-117: map.lock()
CacheObjectsLock(t, objs) ==
  /\ MayCall(t)
  /\ lock = 0
  /\ lock' = t
  /\ cur' = [cur EXCEPT ![t] = Called(t, "cache_objects", 0, objs)]
  /\ pc' = [pc EXCEPT ![t] = "cache_locked"]
  /\ UNCHANGED <<hist, cache, inserts, puts>>

\* cache_objects, lines 121-124: the loop; the guard is dropped at the return
CacheObjectsPut(t) ==
  LET objs == cur[t].objs
      hs == [i \in 1..Len(objs) |-> Arc(t, CallNo(t), i, objs[i])] IN
  /\ pc[t] = "cache_locked"
  /\ lock' = 0
  /\ cache' = put_all(cache, hs, 1)
  /\ puts' = [i \in Ids |-> puts[i] + Cardinality({j \in 1..Len(objs) : objs[j].id = i})]
  /\ Return(t, [cur[t] EXCEPT
                  !.after = [i \in IdsOf(objs) |-> cache'[i]],
                  !.puts1 = [i \in IdsOf(objs) |-> puts'[i]]], Ok(<<>>))
  /\ UNCHANGED inserts

(***************************************************************************)
(* Transport: the client configuration and the requests built from it      *)
(***************************************************************************)
API_URL == "https://api.phira.cn:2925"

\* LANG_IDENTS[0]
DefaultLocale == "LANG_IDENTS[0]"

\* access tokens; the last one holds a line feed
ControlTokens == {"tok\nC"}

Tokens == {"tokA", "tokB"} \cup ControlTokens

\* HeaderValue::from_str accepts visible ASCII only
header_value_ok(text) == text \notin ControlTokens \cup {"Bearer " \o tok : tok \in ControlTokens}

\* CLIENT as first built, lines 16-17: the root certificate, no default headers
InitialClient == [cert |-> "server.crt", headers |-> <<>>]

\* build_client; access_token is an option
build_client(access_token) ==
  LET lang == IF language = {} THEN DefaultLocale ELSE CHOOSE l \in language : TRUE
      auth == "Bearer " \o (CHOOSE tok \in access_token : TRUE) IN
  IF ~header_value_ok(lang) THEN Err(<<"failed to parse header value">>)
  ELSE IF access_token = {}
  THEN Ok([cert |-> "server.crt", headers |-> ("accept-language" :> lang)])
  ELSE IF ~header_value_ok(auth) THEN Err(<<"failed to parse header value">>)
  ELSE Ok([cert |-> "server.crt",
           headers |-> ("accept-language" :> lang) @@ ("authorization" :> auth)])

\* Client::request: the builder keeps the client it was made from
request(method, path) ==
  [client |-> CLIENT, method |-> method, url |-> API_URL \o path, built |-> Len(swaps)]

get(path) == request("GET", path)

\* Client::post: the request carries the JSON text of data
post(path, data) ==
  [client |-> CLIENT, method |-> "POST", url |-> API_URL \o path, built |-> Len(swaps),
   body |-> Render(data)]

\* the headers a request goes out with: the default headers of its client
SentHeaders(req) == req.client.headers

\* a call of the transport or of login that task t starts now
TCalled(op, arg) ==
  [op |-> op, arg |-> arg, req |-> <<>>, sent |-> <<>>, sentAt |-> 0, answer |-> {},
   installed |-> 0, w0 |-> 0, stored |-> 0, res |-> {}]

\* set_access_token_sync, lines 39-42
SetAccessTokenSync(t, access_token) ==
  LET b == build_client(access_token) IN
  /\ MayCall(t)
  /\ IF b.ok
     THEN /\ CLIENT' = b.v
          /\ swaps' = Append(swaps, access_token)
          /\ Return(t, [TCalled("set_access_token_sync", access_token) EXCEPT
                          !.installed = Len(swaps')], Ok(<<>>))
     ELSE /\ UNCHANGED <<CLIENT, swaps>>
          /\ Return(t, TCalled("set_access_token_sync", access_token), b)
  /\ UNCHANGED <<language, tokens, saved, writes>>

\* a caller builds a request with Client::get
Request(t, path) ==
  /\ MayCall(t)
  /\ cur' = [cur EXCEPT ![t] = [TCalled("request", path) EXCEPT !.req = get(path)]]
  /\ pc' = [pc EXCEPT ![t] = "request_built"]
  /\ UNCHANGED <<hist, transportVars>>

\* a request that goes out with the headers of the client active when it is sent
RequestSend_active_client(t) ==
  /\ pc[t] = "request_built"
  /\ Return(t, [cur[t] EXCEPT !.sent = CLIENT.headers, !.sentAt = Len(swaps)], Ok(<<>>))
  /\ UNCHANGED transportVars

\* ... and sends it
RequestSend(t) ==
  /\ pc[t] = "request_built"
  /\ Return(t, [cur[t] EXCEPT !.sent = SentHeaders(cur[t].req), !.sentAt = Len(swaps)],
            Ok(<<>>))
  /\ UNCHANGED transportVars

(***************************************************************************)
(* login                                                                   *)
(***************************************************************************)
LoginParams ==
  {[variant |-> "Password", email |-> "a@b.c", password |-> "pw"],
   [variant |-> "RefreshToken", token |-> "refA"]}

\* Serialize as derived without #[serde(untagged)]: the variant name tags the fields
serialize_tagged(params) ==
  IF params.variant = "Password"
  THEN DObj(<<<<"Password", DObj(<<<<"email", DStr(params.email)>>,
                                   <<"password", DStr(params.password)>>>>)>>>>)
  ELSE DObj(<<<<"RefreshToken", DObj(<<<<"refreshToken", DStr(params.token)>>>>)>>>>)

\* Serialize for the untagged enum LoginParams, lines 63-74
serialize(params) ==
  IF params.variant = "Password"
  THEN DObj(<<<<"email", DStr(params.email)>>, <<"password", DStr(params.password)>>>>)
  ELSE DObj(<<<<"refreshToken", DStr(params.token)>>>>)

TokenPairs == {<<"tokA", "refA">>, <<"tokB", "refB">>, <<"tok\nC", "refC">>}

RespDoc(pair) == DObj(<<<<"token", DStr(pair[1])>>, <<"refreshToken", DStr(pair[2])>>>>)

\* what the server answers to POST /login
LoginAnswers ==
  {NetError,
   HttpResponse(401, DObj(<<<<"detail", DStr("invalid token")>>>>), TRUE),
   HttpResponse(200, DObj(<<<<"token", DStr("tokA")>>>>), TRUE)}
  \cup {HttpResponse(200, RespDoc(pair), TRUE) : pair \in TokenPairs}

\* Response::json::<Resp>, lines 153-158
json_resp(resp) ==
  LET what == from_str(resp.body) IN
  IF /\ resp.textok /\ what.ok
     /\ what.v.k = "obj"
     /\ {"token", "refreshToken"} \subseteq DOMAIN what.v.f
     /\ what.v.f["token"].k = "str"
     /\ what.v.f["refreshToken"].k = "str"
  THEN Ok([token |-> what.v.f["token"].s, refresh_token |-> what.v.f["refreshToken"].s])
  ELSE Err(<<"error decoding response body">>)

\* line 159 on every answer
LoginResults ==
  [resp \in LoginAnswers |->
     LET r == recv_raw(resp) IN IF ~r.ok THEN r ELSE json_resp(r.v)]

\* login, line 159: POST /login with the serialized parameters
Login(t, params) ==
  /\ MayCall(t)
  /\ cur' = [cur EXCEPT ![t] =
               [TCalled("login", params) EXCEPT !.req = post("/login", serialize(params))]]
  /\ pc' = [pc EXCEPT ![t] = "login_await"]
  /\ UNCHANGED <<hist, transportVars>>

\* login that parses the answer and does not install the token
LoginRecv_no_install(t) ==
  /\ pc[t] = "login_await"
  /\ \E resp \in LoginAnswers :
       LET r == LoginResults[resp]
           c == [cur[t] EXCEPT !.answer = {resp}] IN
       IF ~r.ok THEN Return(t, c, r)
       ELSE /\ cur' = [cur EXCEPT ![t] = [c EXCEPT !.w0 = writes]]
            /\ pc' = [pc EXCEPT ![t] = "login_store"]
            /\ UNCHANGED hist
  /\ UNCHANGED transportVars

\* login, lines 159-161: the answer arrives, is parsed, and set_access_token
\* (lines 44-47) installs its token
LoginRecv(t) ==
  /\ pc[t] = "login_await"
  /\ \E resp \in LoginAnswers :
       LET r == LoginResults[resp]
           c == [cur[t] EXCEPT !.answer = {resp}]
           b == build_client({r.v.token}) IN
       IF ~r.ok THEN Return(t, c, r) /\ UNCHANGED <<CLIENT, swaps>>
       ELSE IF ~b.ok THEN Return(t, c, b) /\ UNCHANGED <<CLIENT, swaps>>
       ELSE /\ CLIENT' = b.v
            /\ swaps' = Append(swaps, {r.v.token})
            /\ cur' = [cur EXCEPT ![t] = [c EXCEPT !.installed = Len(swaps'), !.w0 = writes]]
            /\ pc' = [pc EXCEPT ![t] = "login_store"]
            /\ UNCHANGED hist
  /\ UNCHANGED <<language, tokens, saved, writes>>

\* login, lines 162-164: the pair goes to the data, and save_data writes the
\* data or fails
LoginStore(t) ==
  LET r == LoginResults[CHOOSE resp \in cur[t].answer : TRUE] IN
  /\ pc[t] = "login_store"
  /\ tokens' = {<<r.v.token, r.v.refresh_token>>}
  /\ writes' = writes + 1
  /\ \E ok \in BOOLEAN :
       /\ saved' = IF ok THEN tokens' ELSE saved
       /\ Return(t, [cur[t] EXCEPT !.stored = writes'],
                 IF ok THEN Ok(<<>>) ELSE Err(<<"failed to save data">>))
  /\ UNCHANGED <<CLIENT, language, swaps>>

(***************************************************************************)
(* QueryBuilder                                                            *)
(***************************************************************************)
RECURSIVE Pow2(_)
Pow2(n) == IF n = 0 THEN 1 ELSE 2 * Pow2(n - 1)

\* u64::MAX
U64Max == Pow2(U64Bits) - 1

U64 == 0..U64Max

\* the keys and values the builder is called with; a value is a text
FilterKeys == {"mine", "page", "page_num"}

FilterValues == {<<"x">>, <<"1">>}

OrderValues == {<<"x">>, <<"y">>}

FlagNames == {"mine", "page", "order"}

PageNums == {0, U64Max}

\* HashMap::insert if it kept the value of a key that is present
insert_keep_old(map, key, value) ==
  [k \in DOMAIN map \cup {key} |-> IF k \in DOMAIN map THEN map[k] ELSE value]

\* HashMap::insert
insert(map, key, value) ==
  [k \in DOMAIN map \cup {key} |-> IF k = key THEN value ELSE map[k]]

\* the builder takes calls until send has consumed it
Building == qres = {} /\ Len(qlog) < MaxSetters

\* QueryBuilder::query, lines 184-187
Query(key, value) ==
  /\ Building
  /\ queries' = insert(queries, key, value)
  /\ qlog' = Append(qlog, [fn |-> "query", key |-> key, value |-> value])
  /\ UNCHANGED <<page, wire, qres>>

\* QueryBuilder::order, lines 190-192
Order(order) ==
  /\ Building
  /\ queries' = insert(queries, "order", order)
  /\ qlog' = Append(qlog, [fn |-> "order", value |-> order])
  /\ UNCHANGED <<page, wire, qres>>

\* QueryBuilder::flag, lines 194-197
Flag(flag) ==
  /\ Building
  /\ queries' = insert(queries, flag, <<"1">>)
  /\ qlog' = Append(qlog, [fn |-> "flag", name |-> flag])
  /\ UNCHANGED <<page, wire, qres>>

\* QueryBuilder::page_num, lines 200-202
PageNum(page_num) ==
  /\ Building
  /\ queries' = insert(queries, "page_num", to_string(page_num))
  /\ qlog' = Append(qlog, [fn |-> "page_num", n |-> page_num])
  /\ UNCHANGED <<page, wire, qres>>

\* QueryBuilder::page, lines 204-207
Page(n) ==
  /\ Building
  /\ page' = {n}
  /\ qlog' = Append(qlog, [fn |-> "page", n |-> n])
  /\ UNCHANGED <<queries, wire, qres>>

\* what the server answers to GET /{QUERY_PATH}
PagedDoc(count, objs) ==
  DObj(<<<<"count", DNum(count)>>,
         <<"results", DArr([i \in 1..Len(objs) |-> ObjectDoc(objs[i])])>>>>)

SendAnswers ==
  {NetError,
   HttpResponse(500, DObj(<<<<"detail", DStr("internal error")>>>>), TRUE),
   HttpResponse(200, PagedDoc(0, <<>>), TRUE),
   HttpResponse(200, PagedDoc(5, <<[id |-> 1, data |-> "a"], [id |-> 2, data |-> "b"]>>), TRUE),
   HttpResponse(200, DObj(<<<<"count", DNum(1)>>>>), TRUE)}

\* a JSON value is an object with the fields of T
IsObject(v) ==
  /\ v.k = "obj"
  /\ {"id", "data"} \subseteq DOMAIN v.f
  /\ v.f["id"].k = "num"
  /\ v.f["data"].k = "str"

\* Response::json::<PagedResult<T>>, lines 211-219
json_paged(resp) ==
  LET what == from_str(resp.body) IN
  IF /\ resp.textok /\ what.ok
     /\ what.v.k = "obj"
     /\ {"count", "results"} \subseteq DOMAIN what.v.f
     /\ what.v.f["count"].k = "num"
     /\ what.v.f["results"].k = "arr"
     /\ \A i \in 1..Len(what.v.f["results"].a) : IsObject(what.v.f["results"].a[i])
  THEN Ok(<<[i \in 1..Len(what.v.f["results"].a) |->
               [id |-> what.v.f["results"].a[i].f["id"].n,
                data |-> what.v.f["results"].a[i].f["data"].s]],
            what.v.f["count"].n>>)
  ELSE Err(<<"error decoding response body">>)

SendResults ==
  [resp \in SendAnswers |-> LET r == recv_raw(resp) IN IF ~r.ok THEN r ELSE json_paged(r.v)]

\* the query string of a map: one pair for each key
Pairs(map) == {<<k, map[k]>> : k \in DOMAIN map}

Panicked == [ok |-> FALSE, panic |-> <<"attempt to add with overflow">>]

\* send that keeps a page filter set through query or flag
Send_keep_page ==
  LET p == IF page = {} THEN 0 ELSE CHOOSE n \in page : TRUE IN
  /\ qres = {}
  /\ \E checks \in BOOLEAN :
       IF p + 1 > U64Max /\ checks
       THEN /\ qres' = {Panicked}
            /\ UNCHANGED <<queries, wire>>
       ELSE /\ queries' = insert_keep_old(queries, "page", to_string((p + 1) % (U64Max + 1)))
            /\ wire' = Append(wire, Pairs(queries'))
            /\ \E resp \in SendAnswers : qres' = {SendResults[resp]}
  /\ UNCHANGED <<page, qlog>>

\* QueryBuilder::send, lines 209-221.  The sum of line 210 is a u64 sum: when
\* it overflows, a build with overflow checks panics and a build without
\* them wraps around.
Send ==
  LET p == IF page = {} THEN 0 ELSE CHOOSE n \in page : TRUE IN
  /\ qres = {}
  /\ \E checks \in BOOLEAN :
       IF p + 1 > U64Max /\ checks
       THEN /\ qres' = {Panicked}
            /\ UNCHANGED <<queries, wire>>
       ELSE /\ queries' = insert(queries, "page", to_string((p + 1) % (U64Max + 1)))
            /\ wire' = Append(wire, Pairs(queries'))
            /\ \E resp \in SendAnswers : qres' = {SendResults[resp]}
  /\ UNCHANGED <<page, qlog>>

(***************************************************************************)
(* A list query made by a task next to the calls of the cache              *)
(***************************************************************************)
\* send that puts every result into the cache
SendBy_caching(t) ==
  /\ MayCall(t)
  /\ Send
  /\ LET r == CHOOSE x \in qres' : TRUE
         objs == IF r.ok THEN r.v[1] ELSE <<>>
         hs == [i \in 1..Len(objs) |-> Arc(t, CallNo(t), i, objs[i])] IN
       /\ cache' = put_all(cache, hs, 1)
       /\ Return(t, Called(t, "send", 0, <<>>), r)
  /\ UNCHANGED <<lock, inserts, puts>>

\* task t calls Client::query().send(), lines 131-137 and 209-221: the map of
\* the cache is not touched
SendBy(t) ==
  /\ MayCall(t)
  /\ Send
  /\ Return(t, Called(t, "send", 0, <<>>), CHOOSE r \in qres' : TRUE)
  /\ UNCHANGED cacheVars

\* the list a send has returned, as an option
Results == {r.v[1] : r \in {x \in qres : x.ok}}

(***************************************************************************)
(* Specifications                                                          *)
(***************************************************************************)
TaskInit ==
  /\ pc = [t \in Tasks |-> "idle"]
  /\ cur = [t \in Tasks |-> Idle]
  /\ hist = [t \in Tasks |-> <<>>]

CacheInit ==
  /\ cache = <<>>
  /\ lock = 0
  /\ inserts = [i \in Ids |-> <<>>]
  /\ puts = [i \in Ids |-> 0]

\* the program starts with the first CLIENT, no tokens, and some locale setting
TransportStart ==
  /\ CLIENT = InitialClient
  /\ tokens = {}
  /\ saved = {}
  /\ swaps = <<>>
  /\ writes = 0

TransportInit == TransportStart /\ language \in {{}, {"zh-CN"}}

\* Client::query, lines 131-137
QueryInit ==
  /\ queries = <<>>
  /\ page = {}
  /\ qlog = <<>>
  /\ wire = <<>>
  /\ qres = {}

TransportIdle == TransportStart /\ language = {}

\* the object cache under concurrent callers
Init == TaskInit /\ CacheInit /\ RecvIdle /\ TransportIdle /\ QueryInit

Next ==
  \/ \E t \in Tasks, id \in Ids : Load(t, id) /\ UNCHANGED <<recvVars, transportVars, queryVars>>
  \/ \E t \in Tasks : LoadFetch(t) /\ UNCHANGED <<recvVars, transportVars, queryVars>>
  \/ \E t \in Tasks, id \in Ids : Fetch(t, id) /\ UNCHANGED <<recvVars, transportVars, queryVars>>
  \/ \E t \in Tasks : FetchRecv(t) /\ UNCHANGED <<recvVars, transportVars, queryVars>>
  \/ \E t \in Tasks : FetchInsert(t) /\ UNCHANGED <<recvVars, transportVars, queryVars>>
  \/ \E t \in Tasks, objs \in ObjectLists :
       CacheObjects(t, objs) /\ UNCHANGED <<recvVars, transportVars, queryVars>>

Spec == Init /\ [][Next]_vars

\* the object cache with the mutex taken and released in steps of their own
NextLock ==
  \/ \E t \in Tasks, id \in Ids : LoadLock(t, id) /\ UNCHANGED <<recvVars, transportVars, queryVars>>
  \/ \E t \in Tasks : LoadLookup(t) /\ UNCHANGED <<recvVars, transportVars, queryVars>>
  \/ \E t \in Tasks : LoadFetch(t) /\ UNCHANGED <<recvVars, transportVars, queryVars>>
  \/ \E t \in Tasks, id \in Ids : Fetch(t, id) /\ UNCHANGED <<recvVars, transportVars, queryVars>>
  \/ \E t \in Tasks : FetchRecv(t) /\ UNCHANGED <<recvVars, transportVars, queryVars>>
  \/ \E t \in Tasks : FetchLock(t) /\ UNCHANGED <<recvVars, transportVars, queryVars>>
  \/ \E t \in Tasks : FetchStore(t) /\ UNCHANGED <<recvVars, transportVars, queryVars>>
  \/ \E t \in Tasks, objs \in SingleObjects :
       CacheObjectsLock(t, objs) /\ UNCHANGED <<recvVars, transportVars, queryVars>>
  \/ \E t \in Tasks : CacheObjectsPut(t) /\ UNCHANGED <<recvVars, transportVars, queryVars>>

SpecLock == Init /\ [][NextLock]_vars

\* a list query, cache_objects on its results, and loads
NextList ==
  \/ \E t \in Tasks : SendBy(t) /\ UNCHANGED <<recvVars, transportVars>>
  \/ \E t \in Tasks, objs \in Results \ {<<>>} :
       CacheObjects(t, objs) /\ UNCHANGED <<recvVars, transportVars, queryVars>>
  \/ \E t \in Tasks, id \in Ids : Load(t, id) /\ UNCHANGED <<recvVars, transportVars, queryVars>>
  \/ \E t \in Tasks : LoadFetch(t) /\ UNCHANGED <<recvVars, transportVars, queryVars>>
  \/ \E t \in Tasks : FetchRecv(t) /\ UNCHANGED <<recvVars, transportVars, queryVars>>
  \/ \E t \in Tasks : FetchInsert(t) /\ UNCHANGED <<recvVars, transportVars, queryVars>>

SpecList == Init /\ [][NextList]_vars

\* the response pipeline on its own: one call of recv_raw on any answer
InitRecv == TaskInit /\ CacheInit /\ RecvInit /\ TransportIdle /\ QueryInit

NextRecv == RecvRawCall /\ UNCHANGED <<cacheVars, taskVars, transportVars, queryVars>>

SpecRecv == InitRecv /\ [][NextRecv]_vars

\* the transport and login under concurrent callers
InitTransport == TaskInit /\ CacheInit /\ RecvIdle /\ TransportInit /\ QueryInit

NextTransport ==
  \/ \E t \in Tasks, tok \in {{}} \cup {{x} : x \in Tokens} :
       SetAccessTokenSync(t, tok) /\ UNCHANGED <<recvVars, cacheVars, queryVars>>
  \/ \E t \in Tasks : Request(t, "/me") /\ UNCHANGED <<recvVars, cacheVars, queryVars>>
  \/ \E t \in Tasks : RequestSend(t) /\ UNCHANGED <<recvVars, cacheVars, queryVars>>
  \/ \E t \in Tasks, params \in LoginParams : Login(t, params) /\ UNCHANGED <<recvVars, cacheVars, queryVars>>
  \/ \E t \in Tasks : LoginRecv(t) /\ UNCHANGED <<recvVars, cacheVars, queryVars>>
  \/ \E t \in Tasks : LoginStore(t) /\ UNCHANGED <<recvVars, cacheVars, queryVars>>

SpecTransport == InitTransport /\ [][NextTransport]_vars

\* concurrent logins on their own
NextLogin ==
  \/ \E t \in Tasks, params \in LoginParams : Login(t, params) /\ UNCHANGED <<recvVars, cacheVars, queryVars>>
  \/ \E t \in Tasks : LoginRecv(t) /\ UNCHANGED <<recvVars, cacheVars, queryVars>>
  \/ \E t \in Tasks : LoginStore(t) /\ UNCHANGED <<recvVars, cacheVars, queryVars>>

SpecLogin == InitTransport /\ [][NextLogin]_vars

\* one query builder from Client::query to send
InitQuery == TaskInit /\ CacheInit /\ RecvIdle /\ TransportIdle /\ QueryInit

NextQuery ==
  \/ \E key \in FilterKeys, value \in FilterValues :
       Query(key, value) /\ UNCHANGED <<recvVars, cacheVars, taskVars, transportVars>>
  \/ \E order \in OrderValues :
       Order(order) /\ UNCHANGED <<recvVars, cacheVars, taskVars, transportVars>>
  \/ \E flag \in FlagNames :
       Flag(flag) /\ UNCHANGED <<recvVars, cacheVars, taskVars, transportVars>>
  \/ \E n \in PageNums :
       PageNum(n) /\ UNCHANGED <<recvVars, cacheVars, taskVars, transportVars>>
  \/ \E n \in U64 :
       Page(n) /\ UNCHANGED <<recvVars, cacheVars, taskVars, transportVars>>
  \/ Send /\ UNCHANGED <<recvVars, cacheVars, taskVars, transportVars>>

SpecQuery == InitQuery /\ [][NextQuery]_vars

(***************************************************************************)
(* Properties of the response pipeline                                     *)
(***************************************************************************)
\* index of the last member of an object document written with this key, 0 if none
LastMember(doc, key) ==
  IF doc.k # "obj" THEN 0
  ELSE LET at == {i \in 1..Len(doc.m) : doc.m[i][1] = key} IN
    IF at = {} THEN 0 ELSE CHOOSE i \in at : \A j \in at : j <= i

\* the document is JSON and its field detail is a string
HasStringDetail(doc) ==
  /\ doc \in JsonDocs
  /\ LastMember(doc, "detail") > 0
  /\ doc.m[LastMember(doc, "detail")][2].k = "str"

DetailOf(doc) == doc.m[LastMember(doc, "detail")][2].s

\* C7: on a non-success status whose body text was received, recv_raw fails
\* with "request failed: <detail>" when the body is JSON with a string field
\* detail and with "request failed: <raw body text>" in every other case; on
\* a success status it returns the response and no error.
C7_RecvRawMessage ==
  (outcome.done /\ response.kind = "http") =>
    IF is_success(response.status)
    THEN outcome.res.ok /\ outcome.res.v = response
    ELSE response.textok =>
      /\ ~outcome.res.ok
      /\ outcome.res.msg =
           IF HasStringDetail(response.doc)
           THEN <<"request failed: ", DetailOf(response.doc)>>
           ELSE <<"request failed: ">> \o Render(response.doc)

C7_Witness ==
  /\ outcome.done
  /\ response.kind = "http" /\ response.status = 404 /\ response.textok
  /\ response.doc = DObj(<<<<"code", DNum(42)>>, <<"detail", DStr("invalid token")>>>>)
  /\ outcome.res = Err(<<"request failed: ", "invalid token">>)

(***************************************************************************)
(* Properties of the object cache                                          *)
(***************************************************************************)
\* the calls task t has completed, as pairs <<t, k>>
Completed == {c \in Tasks \X (1..MaxCalls) : c[2] <= Len(hist[c[1]])}

Rec(c) == hist[c[1]][c[2]]

\* calls c and d were made one after the other by the same task
Consecutive(c, d) == c[1] = d[1] /\ d[2] = c[2] + 1

\* two loads of one id in a row, the first a miss, both successful, and between
\* their lookups no put for the id and no insertion but the first load's own
TwoLoads(c, d) ==
  /\ Consecutive(c, d)
  /\ Rec(c).op = "load" /\ Rec(d).op = "load" /\ Rec(c).id = Rec(d).id
  /\ Rec(c).miss
  /\ Rec(c).res.ok /\ Rec(d).res.ok
  /\ Rec(d).put0 = Rec(c).put0
  /\ Rec(d).ins0 = Rec(c).ins0 + 1

\* C1: two successful load(id) calls in a row, the first on a cache without
\* an entry for id and with no other fetch or cache_objects for id in between,
\* make exactly one network call in total and return the identical handle.
C1_LoadTwiceOneFetch ==
  \A c \in Completed, d \in Completed :
    TwoLoads(c, d) =>
      /\ Rec(c).net + Rec(d).net = 1
      /\ ~Rec(d).miss
      /\ Rec(d).res.v = Rec(c).res.v

C1_Witness ==
  \E c \in Completed, d \in Completed :
    TwoLoads(c, d) /\ Rec(c).net = 1 /\ Rec(d).net = 0

\* a call that reached the insertion of fetch
Inserted(c) == Rec(c).op \in {"load", "fetch"} /\ Rec(c).got # {} /\ Rec(c).res.ok

\* C2 as stated: after the insertion of a successful fetch(id) the entry for id
\* is the value this fetch obtained, whatever was there before.
C2_FetchReplaces ==
  \A c \in Completed : Inserted(c) => {Rec(c).res.v} = Rec(c).got

\* C2 as amended: the insertion of a successful fetch(id) keeps the entry that
\* is already present for id and stores the fetched value only when there is
\* none; so, as long as no cache_objects writes id, the cache holds the value
\* of the insertion that happened first, and a load(id) that hits returns it.
C2_FetchKeepsFirst ==
  /\ \A c \in Completed :
       Inserted(c) =>
         /\ {Rec(c).res.v} = (IF Rec(c).before # {} THEN Rec(c).before ELSE Rec(c).got)
         /\ \E j \in 1..Len(inserts[Rec(c).id]) : {inserts[Rec(c).id][j]} = Rec(c).got
  /\ \A id \in Ids :
       (puts[id] = 0 /\ inserts[id] # <<>>) =>
         contains(cache, id) /\ cache[id] = inserts[id][1]
  /\ \A c \in Completed :
       (Rec(c).op = "load" /\ ~Rec(c).miss /\ puts[Rec(c).id] = 0) =>
         Rec(c).res = Ok(inserts[Rec(c).id][1])

C2_Witness ==
  \E c \in Completed :
    /\ Inserted(c)
    /\ Rec(c).before # {} /\ Rec(c).before # Rec(c).got
    /\ \A h \in Rec(c).got : h.val # Rec(c).res.v.val
    /\ puts[Rec(c).id] = 0

\* position i holds the last object of the list with its id
LastOfId(objs, i) == \A j \in (i + 1)..Len(objs) : objs[j].id # objs[i].id

\* C3: when cache_objects(list) returns, the entry of every id of the list is
\* the last object of the list with that id; a load of that id made next by
\* the same caller, with no other cache_objects for the id in between,
\* returns that object without a network call.
C3_CacheObjectsThenLoad ==
  /\ \A c \in Completed :
       Rec(c).op = "cache_objects" =>
         \A i \in 1..Len(Rec(c).objs) :
           LastOfId(Rec(c).objs, i) =>
             Rec(c).after[Rec(c).objs[i].id] = Arc(c[1], c[2], i, Rec(c).objs[i])
  /\ \A c \in Completed, d \in Completed :
       (/\ Consecutive(c, d)
        /\ Rec(c).op = "cache_objects" /\ Rec(d).op = "load"
        /\ Rec(d).id \in IdsOf(Rec(c).objs)
        /\ Rec(d).put0 = Rec(c).puts1[Rec(d).id]) =>
         \A i \in 1..Len(Rec(c).objs) :
           (Rec(c).objs[i].id = Rec(d).id /\ LastOfId(Rec(c).objs, i)) =>
             /\ Rec(d).res.ok
             /\ Rec(d).res.v.val = Rec(c).objs[i]
             /\ Rec(d).net = 0

C3_Witness ==
  \E c \in Completed, d \in Completed :
    /\ Consecutive(c, d)
    /\ Rec(c).op = "cache_objects" /\ Rec(d).op = "load"
    /\ Rec(c).objs = <<[id |-> 1, data |-> "a"], [id |-> 1, data |-> "b"]>>
    /\ Rec(d).id = 1 /\ Rec(d).net = 0
    /\ Rec(d).res.ok /\ Rec(d).res.v.val = [id |-> 1, data |-> "b"]

\* the objects the server has returned to the fetches of id that completed
\* their insertion
Fetched(id) == {inserts[id][j] : j \in 1..Len(inserts[id])}

\* C4: once fetches of one id have completed successfully, in whatever order
\* their steps ran, the entry for id exists and is one of the handles built
\* from the whole objects the server returned to these fetches (no
\* cache_objects having written id); each fetch makes its own network call.
C4_ConcurrentFetchConverges ==
  \A id \in Ids :
    (puts[id] = 0 /\ inserts[id] # <<>>) =>
      /\ contains(cache, id)
      /\ cache[id] \in Fetched(id)
      /\ cache[id].val \in Objects /\ cache[id].val.id = id
      /\ \A c \in Completed :
           (Rec(c).op = "fetch" /\ Rec(c).id = id) => Rec(c).net = 1

\* two fetches of one id that overlapped, each with its own network call and
\* its own object
C4_Witness ==
  \E c \in Completed, d \in Completed :
    /\ c[1] # d[1]
    /\ Rec(c).op = "fetch" /\ Rec(d).op = "fetch" /\ Rec(c).id = Rec(d).id
    /\ Inserted(c) /\ Inserted(d)
    /\ Rec(c).ins0 = 0 /\ Rec(d).ins0 = 0
    /\ Rec(c).net = 1 /\ Rec(d).net = 1
    /\ Rec(c).got # Rec(d).got
    /\ puts[Rec(c).id] = 0
    /\ cache[Rec(c).id] \in Rec(d).got

\* the server answered the GET of this call with success and the body null
AnsweredAbsent(c) ==
  /\ Rec(c).op \in {"load", "fetch"}
  /\ \E a \in Rec(c).answer : a.kind = "http" /\ is_success(a.status) /\ a.textok /\ a.doc = DNull

\* the server answered the GET of this call with a non-success status
AnsweredFailure(c) ==
  /\ Rec(c).op \in {"load", "fetch"}
  /\ \E a \in Rec(c).answer : a.kind = "http" /\ ~is_success(a.status)

\* no handle made by call c has been offered to or stored in the cache
NothingInserted(c) ==
  /\ \A id \in Ids : \A j \in 1..Len(inserts[id]) : inserts[id][j].arc # <<c[1], c[2], 0>>
  /\ \A id \in DOMAIN cache : cache[id].arc # <<c[1], c[2], 0>>

\* C8: when the server reports the entity absent (success status, body null),
\* fetch and load on a miss fail with "entry not found", which is not the
\* message "request failed: ..." of a non-success status, and insert nothing.
C8_NotFound ==
  /\ \A c \in Completed :
       AnsweredAbsent(c) =>
         /\ Rec(c).res = Err(<<"entry not found">>)
         /\ NothingInserted(c)
  /\ \A c \in Completed :
       AnsweredFailure(c) =>
         /\ ~Rec(c).res.ok
         /\ Rec(c).res.msg[1] = "request failed: "
         /\ Rec(c).res.msg # <<"entry not found">>

C8_Witness ==
  \E c \in Completed, d \in Completed :
    /\ AnsweredAbsent(c) /\ Rec(c).op = "load" /\ Rec(c).miss
    /\ AnsweredFailure(d)
    /\ Rec(c).res = Err(<<"entry not found">>)
    /\ Rec(c).id \notin DOMAIN cache

\* call c is a fetch or a load of id that returned a handle
GotHandle(c, id) ==
  /\ Rec(c).op \in {"fetch", "load"}
  /\ Rec(c).id = id
  /\ Rec(c).res.ok

\* C13: every fetch(id) or load(id) that has succeeded, with no cache_objects
\* for id since it started, returned the handle that the cache holds for id;
\* so all such callers, however their steps raced, hold one and the same
\* handle.
C13_OneCanonicalWinner ==
  \A id \in Ids :
    \A c \in Completed :
      (GotHandle(c, id) /\ Rec(c).put0 = puts[id]) =>
        /\ contains(cache, id)
        /\ Rec(c).res.v = cache[id]
        /\ \A d \in Completed :
             (GotHandle(d, id) /\ Rec(d).put0 = puts[id]) => Rec(d).res.v = Rec(c).res.v

\* two fetches of one id that raced, each with its own object from the server:
\* both returned the handle of the one that inserted first
C13_Witness ==
  \E c \in Completed, d \in Completed :
    /\ c[1] # d[1]
    /\ GotHandle(c, 1) /\ GotHandle(d, 1)
    /\ Rec(c).op = "fetch" /\ Rec(d).op = "fetch"
    /\ Rec(c).ins0 = 0 /\ Rec(d).ins0 = 0
    /\ puts[1] = 0
    /\ Rec(c).got # Rec(d).got
    /\ Rec(c).res.v \in Rec(c).got
    /\ Rec(d).res.v \in Rec(c).got
    /\ cache[1] = Rec(d).res.v

\* no step removes an entry
EntriesStay == \A id \in Ids : contains(cache, id) => contains(cache', id)

\* a load that started after an insertion or a put for its id
LoadAfterEntry(c) ==
  /\ Rec(c).op = "load"
  /\ Rec(c).ins0 > 0 \/ Rec(c).put0 > 0

\* C14: no step of load, fetch or cache_objects, for whatever id, removes an
\* entry from the cache; and a load(id) that starts after a fetch(id) has
\* inserted or a cache_objects has put id hits the cache and makes no network
\* call.
C14_EntriesNeverRemoved ==
  /\ [][EntriesStay]_vars
  /\ [](\A c \in Completed :
          LoadAfterEntry(c) => (~Rec(c).miss /\ Rec(c).net = 0 /\ Rec(c).res.ok))

\* a load of id 1 without a network call, by another task than the one whose
\* fetch inserted id 1
C14_Witness ==
  \E c \in Completed, d \in Completed :
    /\ c[1] # d[1]
    /\ Rec(d).op = "fetch" /\ Rec(d).id = 1 /\ Rec(d).res.ok
    /\ LoadAfterEntry(c)
    /\ Rec(c).id = 1 /\ Rec(c).ins0 = 1 /\ Rec(c).put0 = 0
    /\ Rec(c).net = 0 /\ Rec(c).res.ok
    /\ Rec(c).res.v = Rec(d).res.v

\* a step in which send returns
SendReturns == qres' # qres

\* a load that started with no insertion and no put made for its id
LoadNeverCached(c) ==
  /\ Rec(c).op = "load"
  /\ Rec(c).ins0 = 0 /\ Rec(c).put0 = 0

\* C16: the step in which send returns, with a list or with an error, leaves
\* the cache as it was; and a load of an id that no fetch has inserted and no
\* cache_objects has put misses and makes a network call, whether or not the
\* id was in the list a send returned.
C16_SendLeavesCache ==
  /\ [][SendReturns => (cache' = cache /\ inserts' = inserts /\ puts' = puts)]_vars
  /\ [](\A c \in Completed : LoadNeverCached(c) => (Rec(c).miss /\ Rec(c).net = 1))

\* a task got id 1 in the list of its send and then loaded id 1 with a
\* network call
C16_Witness ==
  \E c \in Completed, d \in Completed :
    /\ Consecutive(c, d)
    /\ Rec(c).op = "send" /\ Rec(c).res.ok
    /\ 1 \in IdsOf(Rec(c).res.v[1])
    /\ LoadNeverCached(d) /\ Rec(d).id = 1
    /\ Rec(d).miss /\ Rec(d).net = 1 /\ Rec(d).res.ok

\* a step in which the fetch of task t fails: it returns from the await
FetchFails(t) == pc[t] = "fetch_await" /\ pc'[t] = "idle"

\* call c is a fetch or a load that returned an error
Failed(c) == Rec(c).op \in {"fetch", "load"} /\ ~Rec(c).res.ok

\* the answers with which a fetch fails
FailureKinds ==
  {NetError,
   HttpResponse(404, DObj(<<<<"detail", DStr("not found")>>>>), TRUE),
   HttpResponse(200, DRaw(<<"plain text error">>), TRUE),
   HttpResponse(200, DNull, TRUE)}

\* C17: the step in which a fetch(id) or a load(id) fails leaves the cache
\* unchanged, so an entry cached for id stays the same handle; a failed call
\* built no handle and inserted none; it failed on a transport error, a
\* non-success status, an undecodable body or the body null; and a load(id)
\* right after the failed call that finds an entry returns the handle the
\* cache holds, without a network call.
C17_FailedFetchLeavesCache ==
  /\ [][\A t \in Tasks : FetchFails(t) => cache' = cache /\ inserts' = inserts]_vars
  /\ [](\A c \in Completed :
          Failed(c) =>
            /\ Rec(c).got = {}
            /\ NothingInserted(c)
            /\ Rec(c).answer \subseteq FailureKinds /\ Rec(c).answer # {})
  /\ [](\A c \in Completed, d \in Completed :
          (/\ Consecutive(c, d) /\ Failed(c)
           /\ Rec(d).op = "load" /\ Rec(d).id = Rec(c).id
           /\ ~Rec(d).miss /\ Rec(d).put0 = puts[Rec(d).id]) =>
            (Rec(d).net = 0 /\ Rec(d).res = Ok(cache[Rec(d).id])))

\* a fetch of id 1 failed on an undecodable body while the cache held the
\* entry another task's fetch had inserted, and holds it still
C17_Witness ==
  \E c \in Completed, d \in Completed :
    /\ c[1] # d[1]
    /\ Failed(c) /\ Rec(c).op = "fetch" /\ Rec(c).id = 1
    /\ Rec(c).answer = {HttpResponse(200, DRaw(<<"plain text error">>), TRUE)}
    /\ Rec(c).ins0 = 1
    /\ Inserted(d) /\ Rec(d).id = 1
    /\ contains(cache, 1) /\ cache[1] = Rec(d).res.v

(***************************************************************************)
(* Properties of the cache mutex                                           *)
(***************************************************************************)
\* task t is inside load or fetch with its network call not yet answered
AwaitingNetwork(t) == pc[t] \in {"fetch", "fetch_await"}

\* task t is inside a critical section
InSection(t) == pc[t] \in {"load_locked", "fetch_locked", "cache_locked"}

\* C12: a task that is on its way to, or waiting for, the network inside load
\* or fetch does not hold the cache lock; the lock is held only by a task
\* inside a critical section of lookup, insertion or put, none of which
\* awaits, so whenever the lock is free while a fetch is in flight another
\* task can take it.
C12_NoLockAcrossNetwork ==
  /\ \A t \in Tasks : AwaitingNetwork(t) => lock # t
  /\ lock # 0 => InSection(lock)
  /\ \A t \in Tasks : InSection(t) => lock = t

\* while task 1 waits for the network after a load that missed, task 2 holds
\* the lock inside its own load
C12_Witness ==
  /\ pc[1] = "fetch_await" /\ cur[1].op = "load" /\ cur[1].miss
  /\ lock = 2 /\ pc[2] = "load_locked"

(***************************************************************************)
(* Properties of the transport and of login                                *)
(***************************************************************************)
\* the default headers of a configuration built for the access token option tok
ExpectedHeaders(tok) ==
  [h \in {"accept-language"} \cup (IF tok = {} THEN {} ELSE {"authorization"}) |->
     IF h = "accept-language"
     THEN (IF language = {} THEN DefaultLocale ELSE CHOOSE l \in language : TRUE)
     ELSE "Bearer " \o (CHOOSE x \in tok : TRUE)]

\* the configuration that is active after v swaps
ConfigAt(v) ==
  IF v = 0 THEN InitialClient
  ELSE [cert |-> "server.crt", headers |-> ExpectedHeaders(swaps[v])]

\* C5: a swap replaces the whole configuration at once: the active one is
\* always the first one or the one built for the token of the last swap
\* (Authorization: Bearer <token> exactly when that swap was given a token);
\* a request holds, and goes out with, the configuration that was active when
\* it was built, whatever is swapped in afterwards.
C5_AtomicSwap ==
  /\ CLIENT = ConfigAt(Len(swaps))
  /\ \A t \in Tasks :
       cur[t].op \in {"request", "login"} => cur[t].req.client = ConfigAt(cur[t].req.built)
  /\ \A c \in Completed :
       Rec(c).op = "request" =>
         /\ Rec(c).req.built <= Rec(c).sentAt
         /\ Rec(c).sent = ConfigAt(Rec(c).req.built).headers

\* a request built before a swap and sent after it, without the new header
C5_Witness ==
  \E c \in Completed :
    /\ Rec(c).op = "request"
    /\ Rec(c).req.built < Rec(c).sentAt
    /\ swaps[Rec(c).sentAt] # {}
    /\ "authorization" \notin DOMAIN Rec(c).sent
    /\ "authorization" \in DOMAIN CLIENT.headers

\* the pair {token, refreshToken} of the answer a login got
PairOf(c) ==
  LET a == CHOOSE x \in Rec(c).answer : TRUE IN <<a.doc.m[1][2].s, a.doc.m[2][2].s>>

\* C6: a login that returns success has installed the access token of its
\* answer into CLIENT and then stored the pair of this answer, which save_data
\* has written; CLIENT and the store still hold them unless another call has
\* swapped CLIENT or stored tokens since.
C6_LoginInstallsThenStores ==
  /\ \A c \in Completed :
       (Rec(c).op = "login" /\ Rec(c).res.ok) =>
         /\ Rec(c).installed \in 1..Len(swaps)
         /\ swaps[Rec(c).installed] = {PairOf(c)[1]}
         /\ Len(swaps) = Rec(c).installed =>
              /\ "authorization" \in DOMAIN CLIENT.headers
              /\ CLIENT.headers["authorization"] = "Bearer " \o PairOf(c)[1]
         /\ Rec(c).stored > Rec(c).w0
         /\ writes = Rec(c).stored => (tokens = {PairOf(c)} /\ saved = {PairOf(c)})
  /\ \A t \in Tasks :
       (cur[t].op = "login" /\ pc[t] = "login_store") =>
         /\ cur[t].installed \in 1..Len(swaps)
         /\ cur[t].stored = 0

C6_Witness ==
  \E c \in Completed :
    /\ Rec(c).op = "login" /\ Rec(c).res.ok
    /\ Rec(c).arg.variant = "Password"
    /\ PairOf(c) = <<"tokB", "refB">>
    /\ CLIENT.headers["authorization"] = "Bearer tokB"
    /\ tokens = {<<"tokB", "refB">>} /\ saved = tokens


\* the locale setting, or the default locale when none is set
Locale == IF language = {} THEN DefaultLocale ELSE CHOOSE l \in language : TRUE

\* a set of default headers has Accept-Language set from the locale
HasAcceptLanguage(headers) ==
  /\ "accept-language" \in DOMAIN headers
  /\ headers["accept-language"] = Locale

\* C15: in every reachable state the active configuration has the header
\* Accept-Language set from the locale setting, and so has every request that
\* was built and every request that was sent.
C15_AlwaysAcceptLanguage ==
  /\ HasAcceptLanguage(CLIENT.headers)
  /\ \A t \in Tasks :
       cur[t].op \in {"request", "login"} => HasAcceptLanguage(SentHeaders(cur[t].req))
  /\ \A c \in Completed : Rec(c).op = "request" => HasAcceptLanguage(Rec(c).sent)

\* a request built from the first CLIENT was sent without Accept-Language
C15_Witness ==
  \E c \in Completed :
    /\ Rec(c).op = "request"
    /\ Rec(c).req.built = 0
    /\ Rec(c).req.client = InitialClient
    /\ "accept-language" \notin DOMAIN Rec(c).sent

\* call c is a login that returned an error
LoginFailed(c) == Rec(c).op = "login" /\ ~Rec(c).res.ok

\* since login c built its request no call but c itself has swapped CLIENT,
\* and no call but c itself has ever assigned tokens, which were None at the
\* start of the program
OnlyItsOwnEffects(c) ==
  /\ Len(swaps) = Rec(c).req.built + (IF Rec(c).installed > 0 THEN 1 ELSE 0)
  /\ writes = (IF Rec(c).stored > 0 THEN 1 ELSE 0)

\* C18: after a login that returned an error, CLIENT is the configuration its
\* request was built from and tokens is what it was when the login started
\* (nothing else having swapped or stored): the login changed nothing.
C18_LoginAllOrNothing ==
  \A c \in Completed :
    (LoginFailed(c) /\ OnlyItsOwnEffects(c)) =>
      /\ CLIENT = Rec(c).req.client
      /\ tokens = {}

\* a login, the only call made, failed in save_data and left its token in
\* CLIENT and its pair in tokens
C18_Witness ==
  \E c \in Completed :
    /\ Calls = 1
    /\ LoginFailed(c) /\ Rec(c).res = Err(<<"failed to save data">>)
    /\ Rec(c).req.client = InitialClient
    /\ "authorization" \in DOMAIN CLIENT.headers
    /\ tokens = {PairOf(c)}
    /\ saved = {}

\* every call made so far is a login that has returned success, and there
\* are several of them
OnlySuccessfulLogins ==
  /\ \A t \in Tasks : pc[t] = "idle"
  /\ Cardinality(Completed) >= 2
  /\ \A c \in Completed : Rec(c).op = "login" /\ Rec(c).res.ok

\* C19: once several logins, and nothing else, have all completed
\* successfully, however their steps interleaved, the access token in CLIENT
\* is the access token of the pair in tokens.
C19_ConcurrentLoginsAgree ==
  OnlySuccessfulLogins =>
    /\ "authorization" \in DOMAIN CLIENT.headers
    /\ \E pair \in tokens : CLIENT.headers["authorization"] = "Bearer " \o pair[1]

\* two logins by two tasks both returned success; CLIENT carries the token of
\* one answer and tokens holds the pair of the other
C19_Witness ==
  \E c \in Completed, d \in Completed :
    /\ OnlySuccessfulLogins
    /\ c[1] # d[1]
    /\ PairOf(c) = <<"tokA", "refA">> /\ PairOf(d) = <<"tokB", "refB">>
    /\ Rec(c).installed < Rec(d).installed
    /\ Rec(d).stored < Rec(c).stored
    /\ CLIENT.headers["authorization"] = "Bearer tokB"
    /\ tokens = {<<"tokA", "refA">>}

(***************************************************************************)
(* Properties of the body of login                                         *)
(***************************************************************************)
\* the string fields a login variant has, by their names on the wire
FieldsOf(params) ==
  IF params.variant = "Password"
  THEN [k \in {"email", "password"} |->
          IF k = "email" THEN params.email ELSE params.password]
  ELSE [k \in {"refreshToken"} |-> params.token]

Count(text, lexeme) == Cardinality({i \in 1..Len(text) : text[i] = lexeme})

\* a body text has exactly the fields of the login variant params
OnlyFieldsOf(text, params) ==
  LET what == from_str(text)
      fields == FieldsOf(params) IN
  /\ what.ok
  /\ what.v = JObj([k \in DOMAIN fields |-> JStr(fields[k])])
  /\ Count(text, ":") = Cardinality(DOMAIN fields)
  /\ \A x \in {"null", "Password", "RefreshToken"} : Count(text, x) = 0

\* OnlyFieldsOf on the body texts login can send, worked out once
Bodies == {Render(serialize(params)) : params \in LoginParams}

Verdict == [text \in Bodies |-> [params \in LoginParams |-> OnlyFieldsOf(text, params)]]

\* the body of login call c has exactly the fields of its variant
OnlyVariantFields(c) ==
  /\ c.req.method = "POST" /\ c.req.url = API_URL \o "/login"
  /\ c.req.body \in Bodies
  /\ Verdict[c.req.body][c.arg]

\* C11: the body of the request login sends, for every login in progress or
\* completed, parses to a JSON object whose keys are exactly the fields of
\* the chosen variant, each once and with the string the caller gave; no null
\* and no variant name occurs in the body.
C11_LoginBodyOnlyVariantFields ==
  /\ \A t \in Tasks : cur[t].op = "login" => OnlyVariantFields(cur[t])
  /\ \A c \in Completed : Rec(c).op = "login" => OnlyVariantFields(Rec(c))

\* both variants have been sent
C11_Witness ==
  \E c \in Completed, d \in Completed :
    /\ Rec(c).op = "login" /\ Rec(d).op = "login"
    /\ Rec(c).arg.variant = "Password" /\ Rec(d).arg.variant = "RefreshToken"
    /\ DOMAIN from_str(Rec(c).req.body).v.f = {"email", "password"}
    /\ DOMAIN from_str(Rec(d).req.body).v.f = {"refreshToken"}

(***************************************************************************)
(* Properties of the query builder                                         *)
(***************************************************************************)
\* a text is the decimal numeral of a number
IsDecimal(text) ==
  /\ text # <<>>
  /\ \A i \in 1..Len(text) : text[i] \in DigitLexemes
  /\ Len(text) = 1 \/ text[1] # "0"

RECURSIVE Decimal(_)
Decimal(text) ==
  IF text = <<>> THEN 0
  ELSE 10 * Decimal(SubSeq(text, 1, Len(text) - 1)) + DigitValue(text[Len(text)])

Last(S) == CHOOSE i \in S : \A j \in S : j <= i

PageCalls == {i \in 1..Len(qlog) : qlog[i].fn = "page"}

\* the page index the builder was given: that of the last page call, 0 without one
PageIndex == IF PageCalls = {} THEN 0 ELSE qlog[Last(PageCalls)].n

PairsOf(key) == {p \in wire[1] : p[1] = key}

\* C9: once send has returned, it has issued one request whose query string
\* has exactly one pair of key page, and its value is the decimal numeral of
\* n + 1, where n is the index of the last page call, or 0 when page was
\* never called.
C9_PageIsIndexPlusOne ==
  qres # {} =>
    /\ Len(wire) = 1
    /\ \E p \in PairsOf("page") :
         /\ PairsOf("page") = {p}
         /\ IsDecimal(p[2])
         /\ Decimal(p[2]) = PageIndex + 1

\* send has returned on a builder whose page index is u64::MAX
C9_Witness == qres # {} /\ PageIndex = U64Max

\* the key a builder call writes, as an option
KeyOf(call) ==
  CASE call.fn = "query" -> {call.key}
    [] call.fn = "order" -> {"order"}
    [] call.fn = "flag" -> {call.name}
    [] call.fn = "page_num" -> {"page_num"}
    [] OTHER -> {}

\* a builder call that writes a key writes this value
Writes(call, value) ==
  CASE call.fn = "query" -> value = call.value
    [] call.fn = "order" -> value = call.value
    [] call.fn = "flag" -> value = <<"1">>
    [] call.fn = "page_num" -> IsDecimal(value) /\ Decimal(value) = call.n
    [] OTHER -> FALSE

Setters(key) == {i \in 1..Len(qlog) : key \in KeyOf(qlog[i])}

AllKeys == FilterKeys \cup FlagNames \cup {"order", "page_num", "page"}

\* C10: the query string send sends has, for each key, at most one pair: none
\* for a key no call has written, and for a key written by query, order, flag
\* or page_num exactly one, whose value is that of the last call that wrote
\* the key.  The key page is written last by send itself and has exactly one
\* pair.
C10_LastWriteWins ==
  Len(wire) = 1 =>
    /\ \A p \in wire[1] : p[1] \in AllKeys
    /\ \A key \in AllKeys :
         IF key = "page" THEN \E p \in PairsOf(key) : PairsOf(key) = {p}
         ELSE IF Setters(key) = {} THEN PairsOf(key) = {}
         ELSE \E p \in PairsOf(key) :
                /\ PairsOf(key) = {p}
                /\ Writes(qlog[Last(Setters(key))], p[2])

\* flag("mine") then query("mine", "x") has sent mine=x and not mine=1
C10_Witness ==
  /\ Len(wire) = 1
  /\ qlog = <<[fn |-> "flag", name |-> "mine"],
              [fn |-> "query", key |-> "mine", value |-> <<"x">>]>>
  /\ <<"mine", <<"x">>>> \in wire[1]
  /\ <<"mine", <<"1">>>> \notin wire[1]

\* a step of page: the page field changes
PageStep == page' # page

\* C20: in the query string send sends, the pair of key page is there once
\* and its value is the numeral of (page index, 0 without a page call) + 1,
\* whatever query("page", v) or flag("page") wrote before and whatever
\* page_num was given (the sum being a u64; its overflow is the subject of
\* C9); the pair of page_num is the numeral of the last page_num call, unless
\* a later query("page_num", v) wrote the key; and a step of page changes no
\* filter.
C20_PageDecidedByPageField ==
  /\ [][PageStep => queries' = queries /\ wire' = wire]_vars
  /\ [](qres = {} =>
          /\ wire = <<>>
          /\ ("page" \in DOMAIN queries => Setters("page") # {}))
  /\ [](Len(wire) = 1 =>
          /\ \E p \in PairsOf("page") :
               /\ PairsOf("page") = {p}
               /\ IsDecimal(p[2])
               /\ PageIndex < U64Max => Decimal(p[2]) = PageIndex + 1
          /\ \A i \in Setters("page_num") :
               (i = Last(Setters("page_num")) /\ qlog[i].fn = "page_num") =>
                 PairsOf("page_num") = {<<"page_num", to_string(qlog[i].n)>>})

\* query("page", "x") then page(2): send has sent page=3 and nothing else
C20_Witness ==
  /\ Len(wire) = 1
  /\ qlog = <<[fn |-> "query", key |-> "page", value |-> <<"x">>],
              [fn |-> "page", n |-> 2]>>
  /\ wire[1] = {<<"page", <<"3">>>>}

====
